---------------------------- MODULE Spec2Model ----------------------------
(***************************************************************************)
(* A model of the two pipelines of youtub-to-transcript:                   *)
(*   youtube_transcript_fetcher.py  (captions -> transcript -> analysis)   *)
(*   youtube_transcriber.py         (audio -> WAV -> Whisper transcript)   *)
(* Text is modelled as a sequence of one-character strings (URLs) or of    *)
(* tokens (the chat reply, the files), so that the regular expressions,    *)
(* split, startswith, replace and strip are computed the way Python        *)
(* computes them.                                                          *)
(***************************************************************************)
EXTENDS Integers, Sequences, FiniteSets

VARIABLES
    program,         \* which entry point runs: "resolver", "fetcher", "transcriber"
    pc,              \* position in main
    urlFile,         \* url.txt: whether it exists, and its content
    url,             \* main's local url (the stripped content)
    carried,         \* the identifier the input URL was built around, <<>> if none
    env,             \* DEEPSEEK_API_KEY in the environment: whether set, and its value
    printed,         \* the messages printed so far
    dirs,            \* directories created by the run
    files,           \* output files: name -> content, for the files that exist
    extCalls,        \* calls made to each external collaborator
    calls,           \* how often each pipeline stage has executed
    status,          \* per stage: "none", "ok" or "failed"
    video_id,        \* main's video_id
    transcript_data, \* fetch_transcript's / transcribe's return value
    reply,           \* outcome of the summarization POST
    summary_data,    \* summarize_text's return value
    cues,            \* fetch_transcript's locals: the track's language and cues
    constructed,     \* the components main has constructed
    streams,         \* the streams the platform advertises for the video
    audio_stream,    \* download_audio's local audio_stream
    downloaded_path, \* download_audio's local downloaded_path (its extension)
    audio_path       \* download_audio's return value

vars == <<program, pc, urlFile, url, carried, env, printed, dirs, files, extCalls,
          calls, status, video_id, transcript_data, reply, summary_data, cues,
          constructed, streams, audio_stream, downloaded_path, audio_path>>

-----------------------------------------------------------------------------
(* Sequence helpers *)

Min(S) == CHOOSE x \in S : \A y \in S : x <= y

RECURSIVE Concat(_)
Concat(ss) == IF ss = <<>> THEN <<>> ELSE Head(ss) \o Concat(Tail(ss))

\* Whether t occurs in s at position i.
OccursAt(s, t, i) ==
    /\ i >= 1
    /\ i + Len(t) - 1 <= Len(s)
    /\ \A k \in 1..Len(t) : s[i + k - 1] = t[k]

-----------------------------------------------------------------------------
(* TranscriptFetcher.get_video_id *)

\* The length of a video identifier: {11} in both patterns.
IdLen == 11

\* The character class [0-9A-Za-z_-].
IdChars ==
    {"0", "1", "2", "3", "4", "5", "6", "7", "8", "9",
     "A", "B", "C", "D", "E", "F", "G", "H", "I", "J", "K", "L", "M",
     "N", "O", "P", "Q", "R", "S", "T", "U", "V", "W", "X", "Y", "Z",
     "a", "b", "c", "d", "e", "f", "g", "h", "i", "j", "k", "l", "m",
     "n", "o", "p", "q", "r", "s", "t", "u", "v", "w", "x", "y", "z",
     "_", "-"}

\* ([0-9A-Za-z_-]{11}) matches at position i of u.
IdRunAt(u, i) ==
    /\ i >= 1
    /\ i + IdLen - 1 <= Len(u)
    /\ \A k \in 0..(IdLen - 1) : u[i + k] \in IdChars

\* r'(?:v=|/)([0-9A-Za-z_-]{11}).*' matched at position i: where its group
\* starts, or 0 when it does not match there.  The trailing .* always matches.
Pattern1GroupAt(u, i) ==
    IF OccursAt(u, <<"v", "=">>, i) /\ IdRunAt(u, i + 2) THEN i + 2
    ELSE IF OccursAt(u, <<"/">>, i) /\ IdRunAt(u, i + 1) THEN i + 1
    ELSE 0

\* r'youtu\.be/([0-9A-Za-z_-]{11})' matched at position i.
Pattern2GroupAt(u, i) ==
    IF OccursAt(u, <<"y", "o", "u", "t", "u", ".", "b", "e", "/">>, i)
       /\ IdRunAt(u, i + 9)
    THEN i + 9
    ELSE 0

\* re.search(pattern, url).group(1): the leftmost match's group, <<>> for no match.
Search1(u) ==
    LET hits == {i \in 1..Len(u) : Pattern1GroupAt(u, i) # 0}
    IN  IF hits = {} THEN <<>>
        ELSE LET g == Pattern1GroupAt(u, Min(hits)) IN SubSeq(u, g, g + IdLen - 1)

Search2(u) ==
    LET hits == {i \in 1..Len(u) : Pattern2GroupAt(u, i) # 0}
    IN  IF hits = {} THEN <<>>
        ELSE LET g == Pattern2GroupAt(u, Min(hits)) IN SubSeq(u, g, g + IdLen - 1)

\* raise ValueError("Invalid YouTube URL format")
InvalidUrl == <<"ValueError: Invalid YouTube URL format">>

\* The patterns are tried in order and the first match is returned.
get_video_id(u) ==
    IF Search1(u) # <<>> THEN Search1(u)
    ELSE IF Search2(u) # <<>> THEN Search2(u)
    ELSE InvalidUrl

-----------------------------------------------------------------------------
(* URL inputs: the pieces the input URLs are assembled from *)

Https == <<"h", "t", "t", "p", "s", ":", "/", "/">>
Http == <<"h", "t", "t", "p", ":", "/", "/">>
HostWww == <<"w", "w", "w", ".", "y", "o", "u", "t", "u", "b", "e", ".", "c", "o", "m">>
HostBare == <<"y", "o", "u", "t", "u", "b", "e", ".", "c", "o", "m">>
HostMobile == <<"m", ".", "y", "o", "u", "t", "u", "b", "e", ".", "c", "o", "m">>
HostNoCookie ==
    <<"y", "o", "u", "t", "u", "b", "e", "-", "n", "o", "c", "o", "o", "k", "i", "e",
      ".", "c", "o", "m">>
HostShort == <<"y", "o", "u", "t", "u", ".", "b", "e">>
HostExample == <<"e", "x", "a", "m", "p", "l", "e", ".", "c", "o", "m">>
PathWatch == <<"/", "w", "a", "t", "c", "h">>
PathAttribution ==
    <<"/", "a", "t", "t", "r", "i", "b", "u", "t", "i", "o", "n", "_", "l", "i", "n", "k">>
PathVideo == <<"/", "v", "i", "d", "e", "o">>
PathDocs == <<"/", "d", "o", "c", "u", "m", "e", "n", "t", "a", "t", "i", "o", "n">>
PathFeed ==
    <<"/", "f", "e", "e", "d", "/", "s", "u", "b", "s", "c", "r", "i", "p", "t", "i", "o",
      "n", "s">>
ParamTimePre == <<"t", "=", "1", "0", "s", "&">>
ParamListPre == <<"l", "i", "s", "t", "=", "P", "L", "1", "&">>
ParamTimePost == <<"&", "t", "=", "1", "0", "s">>
ParamFeaturePost == <<"&", "f", "e", "a", "t", "u", "r", "e", "=", "s", "h", "a", "r", "e">>
ParamTimeShort == <<"?", "t", "=", "1", "0", "s">>
QueryPlain == <<"?", "q", "=", "c", "a", "t", "s">>
IdRick == <<"d", "Q", "w", "4", "w", "9", "W", "g", "X", "c", "Q">>
IdOther == <<"a", "-", "B", "_", "c", "1", "D", "2", "e", "3", "F">>

Protocols == {Https, Http, <<>>}
VideoIds == {IdRick, IdOther}

\* URLs carrying the identifier as a v=<id> query parameter.
WatchUrls ==
    {[url |-> Concat(<<p, h, pa, <<"?">>, pre, <<"v", "=">>, id, post>>), carried |-> id] :
        p \in Protocols,
        h \in {HostWww, HostBare, HostMobile, HostNoCookie},
        pa \in {PathWatch, PathAttribution},
        pre \in {<<>>, ParamTimePre, ParamListPre},
        id \in VideoIds,
        post \in {<<>>, ParamTimePost, ParamFeaturePost}}

\* URLs carrying the identifier as a youtu.be/<id> path.
ShortUrls ==
    {[url |-> Concat(<<p, HostShort, <<"/">>, id, post>>), carried |-> id] :
        p \in Protocols, id \in VideoIds, post \in {<<>>, ParamTimeShort}}

\* URLs of pages that are not videos.
OtherUrls ==
    {[url |-> Concat(<<p, h, pa, q>>), carried |-> <<>>] :
        p \in Protocols,
        h \in {HostWww, HostExample},
        pa \in {<<>>, PathVideo, PathDocs, PathFeed},
        q \in {<<>>, QueryPlain}}

UrlInputs == WatchUrls \cup ShortUrls \cup OtherUrls

-----------------------------------------------------------------------------
(* Python's string operations, on sequences of characters or tokens *)

\* The characters str.strip() removes.
Whitespace == {" ", "\n", "\t", "\r"}

RECURSIVE LStrip(_, _)
LStrip(s, chars) ==
    IF s # <<>> /\ Head(s) \in chars THEN LStrip(Tail(s), chars) ELSE s

RECURSIVE RStrip(_, _)
RStrip(s, chars) ==
    IF s # <<>> /\ s[Len(s)] \in chars THEN RStrip(SubSeq(s, 1, Len(s) - 1), chars) ELSE s

\* s.strip(chars)
StripChars(s, chars) == RStrip(LStrip(s, chars), chars)

\* The bug of strip(' '): line ends and tabs stay.
strip_spaces_only(s) == StripChars(s, {" "})

\* s.strip()
strip(s) == StripChars(s, Whitespace)

\* s.split(sep): the pieces between the non-overlapping occurrences of sep,
\* found left to right.
RECURSIVE SplitFrom(_, _, _, _)
SplitFrom(s, sep, i, piece) ==
    IF i > Len(s) THEN <<piece>>
    ELSE IF OccursAt(s, sep, i)
         THEN <<piece>> \o SplitFrom(s, sep, i + Len(sep), <<>>)
         ELSE SplitFrom(s, sep, i + 1, Append(piece, s[i]))

split(s, sep) == SplitFrom(s, sep, 1, <<>>)

\* s.startswith(label), for a label that is one token.
startswith(s, label) == s # <<>> /\ Head(s) = label

\* s.replace(label, ''): every occurrence of the label removed.
replace(s, label) == SelectSeq(s, LAMBDA t : t # label)

\* sep.join(parts)
RECURSIVE join(_, _)
join(sep, parts) ==
    IF parts = <<>> THEN <<>>
    ELSE IF Len(parts) = 1 THEN parts[1]
    ELSE parts[1] \o sep \o join(sep, Tail(parts))

\* [f(x) for x in s if keep(x)] without the filter: map over a sequence.
MapSeq(s, F(_)) == [i \in 1..Len(s) |-> F(s[i])]

-----------------------------------------------------------------------------
(* TranscriptFetcher.summarize_text: parsing the reply *)

\* The keys of response_dict.
Keys == {"abstract", "key_concepts", "category", "summary"}

\* response_dict = {}: no key present.
EmptyDict == [k \in Keys |-> [present |-> FALSE, value |-> <<>>]]

\* response_dict[key] = value
DictSet(d, key, value) == [d EXCEPT ![key] = [present |-> TRUE, value |-> value]]

\* summary_data.get(key, default)
DictGet(d, key, default) == IF d[key].present THEN d[key].value ELSE default

\* The bullet character U+2022.
Bullet == "(bullet)"

\* [line.strip('(bullet) ').strip() for line in section.split('\n')[1:] if line.strip()]
KeyConceptsOf(section) ==
    LET lines == Tail(split(section, <<"\n">>))
        kept == SelectSeq(lines, LAMBDA line : strip(line) # <<>>)
    IN  MapSeq(kept, LAMBDA line : strip(StripChars(line, {Bullet, " "})))

\* One turn of the loop over the sections: the if/elif chain on the label.
ParseSection(d, section) ==
    IF startswith(section, "ABSTRACT:")
    THEN DictSet(d, "abstract", strip(replace(section, "ABSTRACT:")))
    ELSE IF startswith(section, "KEY CONCEPTS:")
    THEN DictSet(d, "key_concepts", KeyConceptsOf(section))
    ELSE IF startswith(section, "CATEGORY:")
    THEN DictSet(d, "category", strip(replace(section, "CATEGORY:")))
    ELSE IF startswith(section, "SUMMARY:")
    THEN DictSet(d, "summary", strip(replace(section, "SUMMARY:")))
    ELSE d

RECURSIVE ParseSections(_, _)
ParseSections(d, sections) ==
    IF sections = <<>> THEN d
    ELSE ParseSections(ParseSection(d, Head(sections)), Tail(sections))

\* sections = content.split('\n\n'); the loop; return response_dict
ParseReply(content) == ParseSections(EmptyDict, split(content, <<"\n", "\n">>))

-----------------------------------------------------------------------------
(* TranscriptFetcher.process_transcript: the analysis file *)

NotAvailable == <<"Not available">>

\* for concept in summary_data.get('key_concepts', []): f.write(f"(bullet) {concept}\n")
RECURSIVE ConceptLines(_)
ConceptLines(concepts) ==
    IF concepts = <<>> THEN <<>>
    ELSE <<Bullet, " ">> \o Head(concepts) \o <<"\n">> \o ConceptLines(Tail(concepts))

\* What the writes between open() and the end of the with block put in the file.
AnalysisLayout(language, d) ==
    Concat(<<
        <<"=== TRANSCRIPT ANALYSIS (Language: ", language, ") ===", "\n", "\n">>,
        <<"ABSTRACT:", "\n">>,
        DictGet(d, "abstract", NotAvailable),
        <<"\n", "\n", "KEY CONCEPTS:", "\n">>,
        ConceptLines(DictGet(d, "key_concepts", <<>>)),
        <<"\n", "CATEGORY:", "\n">>,
        DictGet(d, "category", NotAvailable),
        <<"\n">>,
        <<"\n", "DETAILED SUMMARY:", "\n">>,
        DictGet(d, "summary", NotAvailable) >>)

\* if summary_data: None and the empty dict are both false.
SummaryTruthy(sd) == sd.state = "dict" /\ \E k \in Keys : sd.dict[k].present

-----------------------------------------------------------------------------
(* The chat-completion replies the summarization endpoint may return *)

\* The most paragraphs a reply's detailed summary has.
MaxParagraphs == 2
\* The most bullet lines a reply's key-concepts section has.
MaxConcepts == 2

\* A line of n words.
RECURSIVE Words(_)
Words(n) == IF n <= 1 THEN <<"word">> ELSE <<"word", " ">> \o Words(n - 1)

AbstractBodies == {<<"An", " ", "overview">>, <<"The", " ", "ABSTRACT:", " ", "idea">>}
CategoryBody == <<"Education">>

\* The i-th paragraph of a summary; with the label word in it when asked.
Paragraph(i, labelled) ==
    IF labelled THEN <<"In", " ", "SUMMARY:", " ">> \o Words(i) ELSE Words(i)

\* What a reply is meant to say: for each section whether it is there, and its body.
ReplyShapes ==
    {[hasAbstract |-> ha, abstract |-> IF ha THEN a ELSE <<>>,
      hasConcepts |-> hk, concepts |-> IF hk THEN [i \in 1..nk |-> Words(i)] ELSE <<>>,
      hasCategory |-> hc, category |-> IF hc THEN CategoryBody ELSE <<>>,
      hasSummary |-> hs,
      paragraphs |-> IF hs THEN [i \in 1..np |-> Paragraph(i, lab)] ELSE <<>>] :
        ha \in BOOLEAN, a \in AbstractBodies, hk \in BOOLEAN, nk \in 1..MaxConcepts,
        hc \in BOOLEAN, hs \in BOOLEAN, np \in 1..MaxParagraphs, lab \in BOOLEAN}

\* The reply text in the format the prompt instructs: the labelled sections in
\* order, separated by blank lines, the bullets one per line.
ReplyText(r) ==
    join(<<"\n", "\n">>,
         (IF r.hasAbstract THEN << <<"ABSTRACT:", "\n">> \o r.abstract >> ELSE <<>>)
         \o (IF r.hasConcepts
             THEN << <<"KEY CONCEPTS:", "\n">>
                     \o join(<<"\n">>, MapSeq(r.concepts, LAMBDA c : <<Bullet, " ">> \o c)) >>
             ELSE <<>>)
         \o (IF r.hasCategory THEN << <<"CATEGORY:", "\n">> \o r.category >> ELSE <<>>)
         \o (IF r.hasSummary
             THEN << <<"SUMMARY:", "\n">> \o join(<<"\n", "\n">>, r.paragraphs) >>
             ELSE <<>>))

NoShape ==
    [hasAbstract |-> FALSE, abstract |-> <<>>, hasConcepts |-> FALSE, concepts |-> <<>>,
     hasCategory |-> FALSE, category |-> <<>>, hasSummary |-> FALSE, paragraphs |-> <<>>]

-----------------------------------------------------------------------------
(* The streams of a video, and pytube's StreamQuery as download_audio uses it *)

\* The most streams the platform advertises for a video.
MaxStreams == 3
\* The quality levels of a bitrate or a resolution; 0 stands for None.
MaxQuality == 2

NoStream == [itag |-> 0, kind |-> "none", abr |-> 0, resolution |-> 0]

\* Audio-only streams (some formats carry no bitrate tag), progressive streams
\* (audio and video, always tagged with a resolution) and video-only streams.
StreamKinds ==
    {[kind |-> "audio", abr |-> a, resolution |-> 0] : a \in 0..MaxQuality}
    \cup {[kind |-> "progressive", abr |-> 0, resolution |-> r] : r \in 1..MaxQuality}
    \cup {[kind |-> "video", abr |-> 0, resolution |-> r] : r \in {MaxQuality}}

StreamLists ==
    UNION {{[i \in 1..n |-> [itag |-> i, kind |-> f[i].kind, abr |-> f[i].abr,
                             resolution |-> f[i].resolution]] :
                f \in [1..n -> StreamKinds]} : n \in 0..MaxStreams}

\* streams.filter(only_audio=True)
filter_only_audio(q) == SelectSeq(q, LAMBDA st : st.kind = "audio")

\* streams.filter(progressive=True)
filter_progressive(q) == SelectSeq(q, LAMBDA st : st.kind = "progressive")

\* sorted(): x goes before the first element that does not sort below it, so
\* that equal keys keep their order.
RECURSIVE InsertSorted(_, _, _)
InsertSorted(x, q, attr) ==
    IF q = <<>> THEN <<x>>
    ELSE IF Head(q)[attr] >= x[attr] THEN <<x>> \o q
    ELSE <<Head(q)>> \o InsertSorted(x, Tail(q), attr)

RECURSIVE Sorted(_, _)
Sorted(q, attr) ==
    IF q = <<>> THEN <<>> ELSE InsertSorted(Head(q), Sorted(Tail(q), attr), attr)

\* .order_by(attr): the streams that have the attribute, in ascending order.
order_by(q, attr) == Sorted(SelectSeq(q, LAMBDA st : st[attr] # 0), attr)

\* The bug of a forgotten .desc(): the order stays ascending.
desc_forgotten(q) == q

\* .desc(): the query reversed.
desc(q) == [i \in 1..Len(q) |-> q[Len(q) + 1 - i]]

\* .first(): the first stream, or None.
first(q) == IF q = <<>> THEN NoStream ELSE q[1]

\* The three attempts of the inner try block, each made only if the one
\* before it gave no stream.
SelectStream(q) ==
    LET attempt1 == first(desc(order_by(filter_only_audio(q), "abr")))
        attempt2 == IF attempt1 = NoStream THEN first(filter_only_audio(q)) ELSE attempt1
    IN  IF attempt2 = NoStream
        THEN first(order_by(filter_progressive(q), "resolution"))
        ELSE attempt2

-----------------------------------------------------------------------------
(* Paths and files *)

\* The suffixes a downloaded stream's file may have.
DownloadSuffixes == {".mp4", ".webm", ".wav"}

DownloadStem == "downloads/title"
NoPath == [stem |-> "", suffix |-> ""]

\* Path.with_suffix(suffix)
with_suffix(path, suffix) == [path EXCEPT !.suffix = suffix]

\* fetcher.output_dir / f"{video_id}_transcript.txt" and f"{video_id}_analysis.txt"
TranscriptPath == [stem |-> "transcripts/ID_transcript", suffix |-> ".txt"]
SummaryPath == [stem |-> "transcripts/ID_analysis", suffix |-> ".txt"]

AllPaths ==
    {TranscriptPath, SummaryPath}
    \cup {[stem |-> DownloadStem, suffix |-> e] : e \in DownloadSuffixes \cup {".wav", ".txt"}}

Missing == [exists |-> FALSE, content |-> <<>>]

\* open(path, "w") ... write: the file exists and holds what was written.
Written(fs, path, content) == [fs EXCEPT ![path] = [exists |-> TRUE, content |-> content]]

\* Path.unlink()
Unlinked(fs, path) == [fs EXCEPT ![path] = Missing]

-----------------------------------------------------------------------------
(* State *)

FetcherStages == <<"resolve", "retrieve", "format", "persist", "summarize", "analysis">>
TranscriberStages == <<"resolve", "acquire", "normalize", "transcribe", "persist">>
Stages == {FetcherStages[i] : i \in 1..Len(FetcherStages)}
          \cup {TranscriberStages[i] : i \in 1..Len(TranscriberStages)}

Collaborators ==
    {"captions", "post", "platform", "download", "ffmpeg", "model_load", "inference"}

\* The most cues a caption track has.
MaxCues == 2
Languages == {"en", "ar"}
CueLists == {[i \in 1..n |-> Words(i)] : n \in 0..MaxCues}
NoCues == [language |-> "", cues |-> <<>>]

\* The texts the speech-to-text model may return; silence gives the empty text.
Transcripts == {<<>>, Words(1), Words(2)}

Unset == [state |-> "unset", text |-> <<>>, language |-> ""]
ReturnedNone == [state |-> "None", text |-> <<>>, language |-> ""]
NoSummary == [state |-> "unset", dict |-> EmptyDict]
NoReply == [outcome |-> "none", shape |-> NoShape]

UnsetKey == [set |-> FALSE, value |-> ""]
Environments == {UnsetKey, [set |-> TRUE, value |-> ""], [set |-> TRUE, value |-> "sk-key"]}

\* url.txt: absent, empty, only whitespace, or one URL and a line end.
PipelineUrls ==
    {[url |-> Https \o HostWww \o PathWatch \o <<"?", "v", "=">> \o IdRick \o ParamTimePost,
      carried |-> IdRick],
     [url |-> Https \o HostShort \o <<"/">> \o IdRick, carried |-> IdRick],
     [url |-> Https \o HostExample \o PathVideo, carried |-> <<>>],
     [url |-> Https \o HostWww \o PathFeed, carried |-> <<>>]}

UrlFiles ==
    {[exists |-> FALSE, content |-> <<>>, carried |-> <<>>],
     [exists |-> TRUE, content |-> <<>>, carried |-> <<>>],
     [exists |-> TRUE, content |-> <<"\n">>, carried |-> <<>>],
     [exists |-> TRUE, content |-> <<" ", "\t", "\n">>, carried |-> <<>>]}
    \cup {[exists |-> TRUE, content |-> u.url \o <<"\n">>, carried |-> u.carried] :
            u \in PipelineUrls}

\* The state no run has touched yet.
Untouched ==
    /\ printed = {}
    /\ dirs = {}
    /\ files = [path \in AllPaths |-> Missing]
    /\ extCalls = [c \in Collaborators |-> 0]
    /\ calls = [st \in Stages |-> 0]
    /\ status = [st \in Stages |-> "none"]
    /\ video_id = <<>>
    /\ transcript_data = Unset
    /\ reply = NoReply
    /\ summary_data = NoSummary
    /\ cues = NoCues
    /\ constructed = {}
    /\ streams = <<>>
    /\ audio_stream = NoStream
    /\ downloaded_path = NoPath
    /\ audio_path = NoPath

Init ==
    /\ program \in {"fetcher", "transcriber"}
    /\ pc = "start"
    /\ \E f \in UrlFiles :
        /\ urlFile = [exists |-> f.exists, content |-> f.content]
        /\ carried = f.carried
    /\ url = <<>>
    /\ env \in IF program = "fetcher" THEN Environments ELSE {UnsetKey}
    /\ Untouched

\* A stage starts: it is counted.
Started(c, stage) == [c EXCEPT ![stage] = @ + 1]
\* A stage ends with a result.
Ended(st, stage, result) == [st EXCEPT ![stage] = result]
\* A call to an external collaborator is counted.
Called(e, who) == [e EXCEPT ![who] = @ + 1]

-----------------------------------------------------------------------------
(* main, both programs: reading url.txt *)

\* with open('url.txt') ... url = file.read().strip(); if not url: ... return
\* The two mains are the same up to here.
ReadUrl ==
    /\ pc = "start"
    /\ IF ~urlFile.exists
       THEN /\ url' = url
            /\ printed' = printed \cup {"Error: url.txt file not found"}
            /\ pc' = "done"
       ELSE /\ url' = strip(urlFile.content)
            /\ IF url' = <<>>
               THEN /\ printed' = printed \cup {"Error: url.txt is empty"}
                    /\ pc' = "done"
               ELSE /\ printed' = printed \cup {"Processing URL"}
                    /\ pc' = "construct"
    /\ UNCHANGED <<program, urlFile, carried, env, dirs, files, extCalls, calls, status,
                   video_id, transcript_data, reply, summary_data, cues, constructed,
                   streams, audio_stream, downloaded_path, audio_path>>

-----------------------------------------------------------------------------
(* youtube_transcript_fetcher.py *)

\* The bug of testing the key with "is None": an empty key passes.
KeyMissingOnlyUnset(e) == ~e.set

\* if not self.deepseek_api_key: os.getenv gives None for an unset variable.
KeyMissing(e) == ~e.set \/ e.value = ""

\* fetcher = TranscriptFetcher(): mkdir, then the test of the key, whose
\* ValueError main's except Exception reports.
FetcherConstruct ==
    /\ program = "fetcher"
    /\ pc = "construct"
    /\ dirs' = dirs \cup {"transcripts"}
    /\ IF KeyMissing(env)
       THEN /\ printed' = printed
                \cup {"An error occurred: DEEPSEEK_API_KEY not found in .env file"}
            /\ constructed' = constructed
            /\ pc' = "done"
       ELSE /\ printed' = printed
            /\ constructed' = constructed \cup {"TranscriptFetcher"}
            /\ pc' = "resolve"
    /\ UNCHANGED <<program, urlFile, url, carried, env, files, extCalls, calls, status,
                   video_id, transcript_data, reply, summary_data, cues,
                   streams, audio_stream, downloaded_path, audio_path>>

\* video_id = fetcher.get_video_id(url) and the two output paths.
FetcherResolve ==
    /\ program = "fetcher"
    /\ pc = "resolve"
    /\ calls' = Started(calls, "resolve")
    /\ IF get_video_id(url) = InvalidUrl
       THEN /\ video_id' = video_id
            /\ status' = Ended(status, "resolve", "failed")
            /\ printed' = printed \cup {"An error occurred: Invalid YouTube URL format"}
            /\ pc' = "done"
       ELSE /\ video_id' = get_video_id(url)
            /\ status' = Ended(status, "resolve", "ok")
            /\ printed' = printed
            /\ pc' = "list_transcripts"
    /\ UNCHANGED <<program, urlFile, url, carried, env, dirs, files, extCalls,
                   transcript_data, reply, summary_data, cues, constructed,
                   streams, audio_stream, downloaded_path, audio_path>>

\* fetch_transcript's except Exception: the troubleshooting text, return None;
\* main's "if transcript_data:" then ends the run.
\* The bug of running process_transcript whatever fetch_transcript returned.
FetchSucceededAlways(td) == TRUE

\* main's "if transcript_data:" before process_transcript: None is false, a
\* (text, language) pair is true.
FetchSucceeded(td) == td.state = "value"

\* fetch_transcript's except Exception: the troubleshooting text, return None;
\* main's "if transcript_data:" then ends the run.
FetchFailed(stage) ==
    /\ status' = Ended(status, stage, "failed")
    /\ printed' = printed \cup {"Error fetching transcript", "Troubleshooting steps"}
    /\ transcript_data' = ReturnedNone
    /\ pc' = IF FetchSucceeded(ReturnedNone) THEN "summarize" ELSE "done"

\* fetch_transcript, to the track list: get_video_id again, then
\* YouTubeTranscriptApi.list_transcripts(video_id).
FetchList ==
    /\ program = "fetcher"
    /\ pc = "list_transcripts"
    /\ calls' = Started(Started(calls, "resolve"), "retrieve")
    /\ extCalls' = Called(extCalls, "captions")
    /\ \E ok \in BOOLEAN :
        IF get_video_id(url) = InvalidUrl \/ ~ok
        THEN FetchFailed("retrieve")
        ELSE /\ pc' = "fetch"
             /\ UNCHANGED <<status, printed, transcript_data>>
    /\ UNCHANGED <<program, urlFile, url, carried, env, dirs, files, video_id, reply,
                   summary_data, cues, constructed, streams, audio_stream,
                   downloaded_path, audio_path>>

\* The track: manually created, else generated, else one in a listed language;
\* when there is none the exception ends fetch_transcript.  Then
\* transcript.fetch() and language_code.
FetchData ==
    /\ program = "fetcher"
    /\ pc = "fetch"
    /\ \E found \in BOOLEAN :
        IF ~found
        THEN /\ FetchFailed("retrieve")
             /\ UNCHANGED <<extCalls, cues>>
        ELSE /\ extCalls' = Called(extCalls, "captions")
             /\ \E fetched \in BOOLEAN :
                 IF ~fetched
                 THEN /\ FetchFailed("retrieve")
                      /\ cues' = cues
                 ELSE /\ \E lang \in Languages, cs \in CueLists :
                            cues' = [language |-> lang, cues |-> cs]
                      /\ status' = Ended(status, "retrieve", "ok")
                      /\ pc' = "format"
                      /\ UNCHANGED <<printed, transcript_data>>
    /\ UNCHANGED <<program, urlFile, url, carried, env, dirs, files, calls, video_id,
                   reply, summary_data, constructed, streams, audio_stream,
                   downloaded_path, audio_path>>

\* TextFormatter().format_transcript: the cue texts, one per line.
format_transcript(cs) == join(<<"\n">>, cs)

\* The formatting, the write of the transcript file and the return; then
\* main's "if transcript_data:".
FetchWrite ==
    /\ program = "fetcher"
    /\ pc = "format"
    /\ calls' = Started(Started(calls, "format"), "persist")
    /\ LET formatted == format_transcript(cues.cues) IN
       \E opened \in BOOLEAN :
        IF ~opened
        THEN /\ status' = Ended(Ended(status, "format", "ok"), "persist", "failed")
             /\ printed' = printed \cup {"Error fetching transcript", "Troubleshooting steps"}
             /\ transcript_data' = ReturnedNone
             /\ files' = files
             /\ pc' = IF FetchSucceeded(ReturnedNone) THEN "summarize" ELSE "done"
        ELSE /\ status' = Ended(Ended(status, "format", "ok"), "persist", "ok")
             /\ files' = Written(files, TranscriptPath,
                                 <<"Language: ", cues.language, "\n", "\n">> \o formatted)
             /\ transcript_data' =
                    [state |-> "value", text |-> formatted, language |-> cues.language]
             /\ IF FetchSucceeded(transcript_data')
                THEN /\ printed' = printed \cup {"Transcript saved",
                                       "Transcript fetching completed successfully!"}
                     /\ pc' = "summarize"
                ELSE /\ printed' = printed \cup {"Transcript saved"}
                     /\ pc' = "done"
    /\ UNCHANGED <<program, urlFile, url, carried, env, dirs, extCalls, video_id, reply,
                   summary_data, cues, constructed, streams, audio_stream,
                   downloaded_path, audio_path>>

\* The exceptions of the try block of summarize_text: requests' own carry a
\* response attribute, which is None when no response was received; a
\* KeyError or IndexError from result['choices'][0]['message']['content'] has none.
PostErrors == {"ConnectionError", "Timeout", "HTTPError", "KeyError"}

\* hasattr(e, 'response')
HasResponse(exc) == exc \in {"ConnectionError", "Timeout", "HTTPError"}

\* e.response is None
ResponseIsNone(exc) == exc \in {"ConnectionError", "Timeout"}

\* The except block: e.response.text is read whenever the attribute exists, and
\* raises AttributeError on None; that exception leaves summarize_text.
HandlerRaises(exc) == HasResponse(exc) /\ ResponseIsNone(exc)

\* process_transcript to the return of summarize_text: the POST, raise_for_status,
\* the reply's content and its parsing, or the except block.
Summarize ==
    /\ program = "fetcher"
    /\ pc = "summarize"
    /\ calls' = Started(calls, "summarize")
    /\ extCalls' = Called(extCalls, "post")
    /\ \/ \E exc \in PostErrors :
            /\ reply' = [outcome |-> exc, shape |-> NoShape]
            /\ status' = Ended(status, "summarize", "failed")
            /\ IF HandlerRaises(exc)
               THEN /\ summary_data' = summary_data
                    /\ printed' = printed \cup {"Error in summarization",
                            "An error occurred: 'NoneType' object has no attribute 'text'"}
                    /\ pc' = "done"
               ELSE /\ summary_data' = [state |-> "None", dict |-> EmptyDict]
                    /\ printed' = printed \cup
                            (IF HasResponse(exc)
                             THEN {"Error in summarization", "API Response"}
                             ELSE {"Error in summarization"})
                    /\ pc' = "save"
       \/ \E shape \in ReplyShapes :
            /\ reply' = [outcome |-> "ok", shape |-> shape]
            /\ status' = Ended(status, "summarize", "ok")
            /\ summary_data' = [state |-> "dict", dict |-> ParseReply(ReplyText(shape))]
            /\ printed' = printed
            /\ pc' = "save"
    /\ UNCHANGED <<program, urlFile, url, carried, env, dirs, files, video_id,
                   transcript_data, cues, constructed, streams, audio_stream,
                   downloaded_path, audio_path>>

\* process_transcript from "if summary_data:" on.
SaveSummary ==
    /\ program = "fetcher"
    /\ pc = "save"
    /\ IF SummaryTruthy(summary_data)
       THEN /\ calls' = Started(calls, "analysis")
            /\ \E opened \in BOOLEAN :
                IF opened
                THEN /\ files' = Written(files, SummaryPath,
                            AnalysisLayout(transcript_data.language, summary_data.dict))
                     /\ printed' = printed \cup {"Analysis Results"}
                     /\ status' = Ended(status, "analysis", "ok")
                ELSE /\ files' = files
                     /\ printed' = printed \cup {"Error saving summary"}
                     /\ status' = Ended(status, "analysis", "failed")
       ELSE /\ printed' = printed \cup {"Failed to generate summary."}
            /\ UNCHANGED <<calls, files, status>>
    /\ pc' = "done"
    /\ UNCHANGED <<program, urlFile, url, carried, env, dirs, extCalls, video_id,
                   transcript_data, reply, summary_data, cues, constructed, streams,
                   audio_stream, downloaded_path, audio_path>>

-----------------------------------------------------------------------------
(* youtube_transcriber.py *)

\* downloader = VideoDownloader(); transcriber = Transcriber(): mkdir, then
\* whisper.load_model, whose failure main's except Exception reports.
TranscriberConstruct ==
    /\ program = "transcriber"
    /\ pc = "construct"
    /\ dirs' = dirs \cup {"downloads"}
    /\ extCalls' = Called(extCalls, "model_load")
    /\ \E loaded \in BOOLEAN :
        IF loaded
        THEN /\ constructed' = constructed \cup {"VideoDownloader", "Transcriber"}
             /\ printed' = printed
             /\ pc' = "youtube"
        ELSE /\ constructed' = constructed \cup {"VideoDownloader"}
             /\ printed' = printed \cup {"An error occurred"}
             /\ pc' = "done"
    /\ UNCHANGED <<program, urlFile, url, carried, env, files, calls, status, video_id,
                   transcript_data, reply, summary_data, cues, streams, audio_stream,
                   downloaded_path, audio_path>>

\* download_audio's except Exception: the message, the hint for HTTP 400 or 403,
\* the troubleshooting text, return None; main's "if not audio_path: return".
DownloadFailed(stage, log, message) ==
    /\ status' = Ended(status, stage, "failed")
    /\ printed' = log
        \cup {message, "Troubleshooting steps"}
        \cup (IF message = "Error downloading/converting video: HTTP Error 400"
              THEN {"This might be due to regional restrictions"}
              ELSE IF message = "Error downloading/converting video: HTTP Error 403"
              THEN {"Access forbidden"}
              ELSE {})
    /\ pc' = "done"

\* yt = YouTube(url, ...): pytube finds the video in the URL or raises.
OpenVideo ==
    /\ program = "transcriber"
    /\ pc = "youtube"
    /\ calls' = Started(calls, "resolve")
    /\ \E ok \in BOOLEAN :
        IF ok
        THEN /\ status' = Ended(status, "resolve", "ok")
             /\ printed' = printed
             /\ pc' = "select"
        ELSE DownloadFailed("resolve", printed,
                            "Error downloading/converting video: RegexMatchError")
    /\ UNCHANGED <<program, urlFile, url, carried, env, dirs, files, extCalls, video_id,
                   transcript_data, reply, summary_data, cues, constructed, streams,
                   audio_stream, downloaded_path, audio_path>>

\* "if not audio_stream: raise ValueError(...)", after the selection.
StreamChosen(chosen, log) ==
    /\ audio_stream' = chosen
    /\ IF chosen = NoStream
       THEN DownloadFailed("acquire", log,
                "Error downloading/converting video: No suitable audio stream found")
       ELSE /\ status' = status
            /\ printed' = log
            /\ pc' = "download"

\* The stream selection.  yt.streams asks the platform, which answers with the
\* video's streams or fails.  A failure inside the inner try is printed and
\* yt.streams.first() is tried, which asks again: it gives the first stream, or
\* fails again, and that exception ends download_audio.
SelectStreams ==
    /\ program = "transcriber"
    /\ pc = "select"
    /\ calls' = Started(calls, "acquire")
    /\ \E advertised \in StreamLists :
        /\ streams' = advertised
        /\ \/ /\ extCalls' = Called(extCalls, "platform")
              /\ StreamChosen(SelectStream(advertised), printed)
           \/ /\ extCalls' = Called(Called(extCalls, "platform"), "platform")
              /\ StreamChosen(first(advertised), printed \cup {"Stream selection error"})
           \/ /\ extCalls' = Called(Called(extCalls, "platform"), "platform")
              /\ audio_stream' = NoStream
              /\ DownloadFailed("acquire", printed \cup {"Stream selection error"},
                                "Error downloading/converting video: platform error")
    /\ UNCHANGED <<program, urlFile, url, carried, env, dirs, files, video_id,
                   transcript_data, reply, summary_data, cues, constructed,
                   downloaded_path, audio_path>>

\* The errors of audio_stream.download.
DownloadErrors == {"HTTP Error 400", "HTTP Error 403", "IncompleteRead"}

DownloadMessage(err) ==
    IF err = "HTTP Error 400" THEN "Error downloading/converting video: HTTP Error 400"
    ELSE IF err = "HTTP Error 403" THEN "Error downloading/converting video: HTTP Error 403"
    ELSE "Error downloading/converting video: IncompleteRead"

\* audio_file = audio_stream.download(output_path=...); downloaded_path = Path(audio_file)
Download ==
    /\ program = "transcriber"
    /\ pc = "download"
    /\ extCalls' = Called(extCalls, "download")
    /\ \/ \E suffix \in DownloadSuffixes :
            /\ downloaded_path' = [stem |-> DownloadStem, suffix |-> suffix]
            /\ files' = Written(files, downloaded_path', <<"media">>)
            /\ status' = Ended(status, "acquire", "ok")
            /\ printed' = printed \cup {"Downloading audio using stream"}
            /\ pc' = "convert"
       \/ \E err \in DownloadErrors :
            /\ DownloadFailed("acquire", printed \cup {"Downloading audio using stream"},
                              DownloadMessage(err))
            /\ UNCHANGED <<downloaded_path, files>>
    /\ UNCHANGED <<program, urlFile, url, carried, env, dirs, calls, video_id,
                   transcript_data, reply, summary_data, cues, constructed, streams,
                   audio_stream, audio_path>>

\* What running ffmpeg can end in.  ffmpeg refuses an output that is its own
\* input (it cannot edit a file in place); an OSError is the missing binary.
FfmpegOutcomes(input, output) ==
    IF input = output THEN {"ffmpeg.Error"} ELSE {"ok", "ffmpeg.Error", "OSError"}

\* The bug of a forgotten "raise" in the except ffmpeg.Error block.
ConvertRaisesUnlessCaught(outcome) == outcome = "OSError"

\* _convert_to_wav: whether the call ends in an exception.  ffmpeg.Error is
\* printed and raised again; any other exception passes through.
ConvertRaises(outcome) == outcome # "ok"

\* wav_path = downloaded_path.with_suffix('.wav'); self._convert_to_wav(...)
Convert ==
    /\ program = "transcriber"
    /\ pc = "convert"
    /\ calls' = Started(calls, "normalize")
    /\ extCalls' = Called(extCalls, "ffmpeg")
    /\ LET wav_path == with_suffix(downloaded_path, ".wav") IN
       \E outcome \in FfmpegOutcomes(downloaded_path, wav_path) :
        /\ files' = IF outcome = "ok" THEN Written(files, wav_path, <<"pcm">>) ELSE files
        /\ LET log == printed \cup {"Converting audio format..."}
                        \cup (IF outcome = "ffmpeg.Error" THEN {"Error converting audio"}
                              ELSE {})
           IN  IF ConvertRaises(outcome)
               THEN DownloadFailed("normalize", log,
                                   "Error downloading/converting video: conversion failed")
               ELSE /\ status' = status
                    /\ printed' = log
                    /\ pc' = "unlink"
    /\ UNCHANGED <<program, urlFile, url, carried, env, dirs, video_id,
                   transcript_data, reply, summary_data, cues, constructed, streams,
                   audio_stream, downloaded_path, audio_path>>

\* downloaded_path.unlink(); return wav_path
Unlink ==
    /\ program = "transcriber"
    /\ pc = "unlink"
    /\ \E removed \in BOOLEAN :
        IF removed
        THEN /\ files' = Unlinked(files, downloaded_path)
             /\ audio_path' = with_suffix(downloaded_path, ".wav")
             /\ status' = Ended(status, "normalize", "ok")
             /\ printed' = printed
             /\ pc' = "transcribe"
        ELSE /\ DownloadFailed("normalize", printed,
                               "Error downloading/converting video: PermissionError")
             /\ UNCHANGED <<files, audio_path>>
    /\ UNCHANGED <<program, urlFile, url, carried, env, dirs, extCalls, calls, video_id,
                   transcript_data, reply, summary_data, cues, constructed, streams,
                   audio_stream, downloaded_path>>

\* transcript_path = audio_path.with_suffix(".txt"); transcriber.transcribe(...):
\* the inference, the write of the transcript file, and main's report.
Transcribe ==
    /\ program = "transcriber"
    /\ pc = "transcribe"
    /\ extCalls' = Called(extCalls, "inference")
    /\ LET transcript_path == with_suffix(audio_path, ".txt") IN
       \/ /\ calls' = Started(calls, "transcribe")
          /\ status' = Ended(status, "transcribe", "failed")
          /\ printed' = printed \cup {"Error transcribing audio"}
          /\ transcript_data' = ReturnedNone
          /\ files' = files
       \/ \E text \in Transcripts, opened \in BOOLEAN :
            /\ calls' = Started(Started(calls, "transcribe"), "persist")
            /\ IF opened
               THEN /\ files' = Written(files, transcript_path, text)
                    /\ status' = Ended(Ended(status, "transcribe", "ok"), "persist", "ok")
                    /\ transcript_data' = [state |-> "value", text |-> text, language |-> ""]
                    /\ printed' = printed \cup {"Transcript saved"}
                            \cup (IF text # <<>>
                                  THEN {"Transcription completed successfully!"}
                                  ELSE {})
               ELSE /\ files' = files
                    /\ status' = Ended(Ended(status, "transcribe", "ok"), "persist", "failed")
                    /\ transcript_data' = ReturnedNone
                    /\ printed' = printed \cup {"Error transcribing audio"}
    /\ pc' = "done"
    /\ UNCHANGED <<program, urlFile, url, carried, env, dirs, video_id, reply,
                   summary_data, cues, constructed, streams, audio_stream,
                   downloaded_path, audio_path>>

-----------------------------------------------------------------------------
(* Specifications *)

Next ==
    \/ ReadUrl
    \/ FetcherConstruct
    \/ FetcherResolve
    \/ FetchList
    \/ FetchData
    \/ FetchWrite
    \/ Summarize
    \/ SaveSummary
    \/ TranscriberConstruct
    \/ OpenVideo
    \/ SelectStreams
    \/ Download
    \/ Convert
    \/ Unlink
    \/ Transcribe

\* The run of either program's main.
Spec == Init /\ [][Next]_vars

\* get_video_id applied to each input URL.
InitResolver ==
    /\ program = "resolver"
    /\ pc = "resolve"
    /\ urlFile = [exists |-> FALSE, content |-> <<>>]
    /\ \E u \in UrlInputs :
        /\ url = u.url
        /\ carried = u.carried
    /\ env = UnsetKey
    /\ Untouched

ResolveUrl ==
    /\ program = "resolver"
    /\ pc = "resolve"
    /\ video_id' = get_video_id(url)
    /\ calls' = Started(calls, "resolve")
    /\ pc' = "done"
    /\ UNCHANGED <<program, urlFile, url, carried, env, printed, dirs, files, extCalls,
                   status, transcript_data, reply, summary_data, cues, constructed,
                   streams, audio_stream, downloaded_path, audio_path>>

NextResolver == ResolveUrl

SpecResolver == InitResolver /\ [][NextResolver]_vars

-----------------------------------------------------------------------------
(* Claims about get_video_id, under SpecResolver *)

\* A v=<id> query parameter with an 11-character identifier.
HasVParam(u) ==
    \E i \in 2..Len(u) :
        /\ u[i - 1] \in {"?", "&"}
        /\ OccursAt(u, <<"v", "=">>, i)
        /\ IdRunAt(u, i + 2)

\* A youtu.be/<id> path with an 11-character identifier.
HasShortPath(u) ==
    \E i \in 1..Len(u) : OccursAt(u, HostShort \o <<"/">>, i) /\ IdRunAt(u, i + Len(HostShort) + 1)

\* C1: for every URL that carries an identifier in the v=<id> or the
\* youtu.be/<id> form, get_video_id returns exactly that identifier, whatever
\* protocol, host, path and other query parameters surround it.
C1_ReturnsCarriedId ==
    (program = "resolver" /\ pc = "done" /\ carried # <<>>) => video_id = carried

\* C6: for every URL with neither a v=<id> parameter nor a youtu.be/<id> path,
\* get_video_id returns no identifier and fails with the invalid-URL error.
C6_RejectsOtherUrls ==
    (program = "resolver" /\ pc = "done" /\ ~HasVParam(url) /\ ~HasShortPath(url))
        => video_id = InvalidUrl

-----------------------------------------------------------------------------
(* Claims about the caption pipeline, under Spec *)

Exists(path) == files[path].exists
NoFileWritten == \A path \in AllPaths : ~Exists(path)
NoExternalCall == \A c \in Collaborators : extCalls[c] = 0

\* How often a token occurs in a text.
Occurrences(text, token) == Cardinality({i \in 1..Len(text) : text[i] = token})

\* The sections a reply lacks.
AbsentSections(shape) ==
    (IF shape.hasAbstract THEN {} ELSE {"abstract"})
    \cup (IF shape.hasConcepts THEN {} ELSE {"key_concepts"})
    \cup (IF shape.hasCategory THEN {} ELSE {"category"})
    \cup (IF shape.hasSummary THEN {} ELSE {"summary"})

\* C2: whenever the summarization call succeeds, whatever subset of the four
\* sections the reply contains, none included, the analysis file is written
\* with the four-section layout and one 'Not available' placeholder for every
\* absent field, and the record is not reported as failed.
C2_EveryReplyIsWritten ==
    (program = "fetcher" /\ pc = "done" /\ reply.outcome = "ok"
     /\ status["analysis"] # "failed")
        => /\ Exists(SummaryPath)
           /\ "Failed to generate summary." \notin printed
           /\ \A label \in {"ABSTRACT:", "KEY CONCEPTS:", "CATEGORY:", "DETAILED SUMMARY:"} :
                Occurrences(files[SummaryPath].content, label) >= 1
           /\ Occurrences(files[SummaryPath].content, "Not available")
                = Cardinality(AbsentSections(reply.shape))

\* C3: every failure of the HTTP call, without a response or with a failure
\* status, makes summarize_text return None: process_transcript reports that no
\* summary could be generated, no analysis file is written, the error body is
\* printed when there is one, and no exception leaves summarize_text.
C3_HttpFailureReturnsNone ==
    (program = "fetcher" /\ pc = "done"
     /\ reply.outcome \in {"ConnectionError", "Timeout", "HTTPError"})
        => /\ summary_data.state = "None"
           /\ "Failed to generate summary." \in printed
           /\ ~Exists(SummaryPath)
           /\ (reply.outcome = "HTTPError" => "API Response" \in printed)
           /\ "An error occurred: 'NoneType' object has no attribute 'text'" \notin printed

\* C9: a reply in exactly the instructed format, all four sections present, is
\* parsed into a record that reproduces every section's body in full.
C9_SectionsReproduced ==
    (program = "fetcher" /\ reply.outcome = "ok" /\ AbsentSections(reply.shape) = {})
        => /\ summary_data.state = "dict"
           /\ DictGet(summary_data.dict, "abstract", <<>>) = reply.shape.abstract
           /\ DictGet(summary_data.dict, "key_concepts", <<>>) = reply.shape.concepts
           /\ DictGet(summary_data.dict, "category", <<>>) = reply.shape.category
           /\ DictGet(summary_data.dict, "summary", <<>>)
                = join(<<"\n", "\n">>, reply.shape.paragraphs)

\* The token is absent: the variable unset, or set to the empty string.
NoToken == ~env.set \/ env.value = ""

MissingCredentialMessage == "An error occurred: DEEPSEEK_API_KEY not found in .env file"

\* C5: with no API token configured the construction of TranscriptFetcher
\* fails with the missing-credential error before any network call: no
\* caption request, no POST (no external call at all) and no file, to the end
\* of the run.
C5_NoTokenNoNetwork ==
    (program = "fetcher" /\ NoToken)
        => /\ NoExternalCall
           /\ NoFileWritten
           /\ "TranscriptFetcher" \notin constructed
           /\ pc \in {"start", "construct", "done"}
           /\ (pc = "done" /\ url # <<>>) => MissingCredentialMessage \in printed

C5_Witness ==
    /\ program = "fetcher"
    /\ pc = "done"
    /\ env = [set |-> TRUE, value |-> ""]
    /\ MissingCredentialMessage \in printed

-----------------------------------------------------------------------------
(* Claims about both pipelines, under Spec *)

StageOrder == IF program = "fetcher" THEN FetcherStages ELSE TranscriberStages

\* A stage has run only after every earlier stage succeeded.
OrderRespected ==
    \A i \in 1..Len(StageOrder) :
        calls[StageOrder[i]] > 0
            => \A j \in 1..(i - 1) : status[StageOrder[j]] = "ok"

\* The transcript file of the running program.
TranscriptFile ==
    IF program = "fetcher" THEN TranscriptPath
    ELSE [stem |-> DownloadStem, suffix |-> ".txt"]

\* No output is written downstream of a failure.
NothingAfterFailure ==
    /\ Exists(TranscriptFile)
        => \A i \in 1..Len(StageOrder) :
                (StageOrder[i] \notin {"persist", "summarize", "analysis"})
                    => status[StageOrder[i]] = "ok"
    /\ Exists(SummaryPath) => status["summarize"] = "ok"

\* The transcript of a successful caption fetch outlives a failed summarization.
TranscriptKept ==
    (program = "fetcher" /\ status["persist"] = "ok") => Exists(TranscriptPath)

Blank(text) == \A i \in 1..Len(text) : text[i] \in {" ", "\n", "\t", "\r"}

\* C7: when url.txt exists and is empty or only whitespace, main prints the
\* 'no work' message and returns: no component is constructed, no external
\* collaborator is called, no stage runs, no directory or file is created.
C7_BlankUrlFileNoWork ==
    (urlFile.exists /\ Blank(urlFile.content))
        => /\ pc \in {"start", "done"}
           /\ pc = "done" => "Error: url.txt is empty" \in printed
           /\ constructed = {}
           /\ NoExternalCall
           /\ \A stage \in Stages : calls[stage] = 0
           /\ dirs = {}
           /\ NoFileWritten

C7_Witness ==
    /\ pc = "done"
    /\ urlFile.exists
    /\ urlFile.content = <<" ", "\t", "\n">>
    /\ "Error: url.txt is empty" \in printed

-----------------------------------------------------------------------------
(* Claims about download_audio, under Spec *)

AudioOnly == {i \in 1..Len(streams) : streams[i].kind = "audio"}
Progressive == {i \in 1..Len(streams) : streams[i].kind = "progressive"}

Selected == program = "transcriber" /\ calls["acquire"] = 1
EnumerationRaised == "Stream selection error" \in printed
FallbackRaised == "Error downloading/converting video: platform error" \in printed
NoStreamReported ==
    "Error downloading/converting video: No suitable audio stream found" \in printed

\* C8: the stream is the highest-bitrate audio-only stream when there is an
\* audio-only stream; otherwise the lowest-resolution progressive stream when
\* there is one; the first advertised stream only when the enumeration raised;
\* and the no-stream failure is reported, nothing downloaded, exactly when the
\* tier reached gives no stream.
C8_OrderedFallback ==
    Selected =>
        /\ (~EnumerationRaised /\ AudioOnly # {})
            => /\ \E i \in AudioOnly : audio_stream = streams[i]
               /\ \A i \in AudioOnly : streams[i].abr <= audio_stream.abr
        /\ (~EnumerationRaised /\ AudioOnly = {} /\ Progressive # {})
            => /\ \E i \in Progressive : audio_stream = streams[i]
               /\ \A i \in Progressive : audio_stream.resolution <= streams[i].resolution
               /\ ~NoStreamReported
        /\ (~EnumerationRaised /\ AudioOnly = {} /\ Progressive = {})
            => audio_stream = NoStream
        /\ (EnumerationRaised /\ ~FallbackRaised)
            => audio_stream = (IF streams = <<>> THEN NoStream ELSE streams[1])
        /\ audio_stream.kind = "video" => EnumerationRaised
        /\ NoStreamReported <=> (audio_stream = NoStream /\ ~FallbackRaised)
        /\ NoStreamReported
            => /\ extCalls["download"] = 0
               /\ NoFileWritten
               /\ pc = "done"

C8_Witness ==
    /\ Selected
    /\ pc = "download"
    /\ ~EnumerationRaised
    /\ \E i, j \in AudioOnly : streams[i].abr < streams[j].abr
    /\ Progressive # {}
    /\ audio_stream.abr = MaxQuality

ConversionFailed == "Error downloading/converting video: conversion failed" \in printed

\* C10: whenever download_audio returns a path, whatever the suffix of the
\* downloaded file, the returned WAV file exists in the working directory and
\* the downloaded file no longer does; whenever the conversion fails, the
\* downloaded file is kept and download_audio returns None.
C10_ConvertedThenRemoved ==
    /\ audio_path # NoPath
        => /\ audio_path = [stem |-> DownloadStem, suffix |-> ".wav"]
           /\ Exists(audio_path)
           /\ downloaded_path # audio_path
           /\ ~Exists(downloaded_path)
    /\ ConversionFailed
        => /\ Exists(downloaded_path)
           /\ audio_path = NoPath
           /\ pc = "done"

C10_Witness ==
    /\ program = "transcriber"
    /\ audio_path # NoPath
    /\ pc = "transcribe"
    /\ Exists(audio_path)
    /\ "Converting audio format..." \in printed

=============================================================================
